---- MODULE Spec2Model ----
(***************************************************************************)
(* Voice-session client of src/src/App.jsx (the App component that starts  *)
(* at line 669): capture pipeline, WebSocket protocol handlers, playback   *)
(* scheduler, turn accumulator and session handling.                       *)
(*                                                                         *)
(* Times are counted in sample periods of the 24 kHz playback clock, so a  *)
(* buffer of n samples lasts n time units.  Texts are sequences of tokens; *)
(* the token " " is the separating space and <<>> is the empty string.     *)
(***************************************************************************)
EXTENDS Integers, Sequences, FiniteSets, TLC

\* ---------------------------------------------------------------- bounds
MaxChannels == 2      \* WebSockets created in one run
MaxStarts   == 2      \* handleRecordingStart invocations alive at once
MaxSent     == 2      \* messages recorded per channel
MaxFrags    == 2      \* text fragments delivered between two commits
MaxHistory  == 1      \* committed ChatTurns
MaxClock    == 2      \* reading of the playback clock
MaxBytes    == 4      \* decoded length of an inbound frame, in bytes
MaxFrames   == 2      \* audio frames delivered in one run
MaxUuid     == 4      \* session identities generated in one run
GridDen     == 32     \* input samples are multiples of 1 / GridDen
MaxSample   == 64     \* largest sample numerator fed to the fallback encoder

\* ------------------------------------------------------- program constants
AUDIO_CHANNELS == 1
BytesPerSample == 2   \* Int16Array view of the decoded bytes
NegScale == 32768     \* 0x8000, the factor for negative samples
PosScale == 32767     \* 0x7FFF, the factor for the others

Chans == 1..MaxChannels
Procs == 1..MaxStarts
NULL  == 0            \* a ref holding null

SPACE == " "
Texts == {<<>>, <<"a">>, <<"b">>}
Frames == [valid : BOOLEAN, bytes : 0..MaxBytes]
Analyses == {"analysis"}

VARIABLES
    \* React state (useState)
    isRecording, transcript, streamingResponse, response, chatHistory,
    isProcessing, isAssistantSpeaking, connectionStatus, transcriptAnalysis,
    isAnalyzing, showUserInfoModal, hasStartedOnce,
    userName, userRole, userIndustry, yearsOfExperience,
    \* refs (useRef)
    websocketRef, audioContextRef, audioStreamRef, workletNodeRef,
    sessionIdRef, audioQueueRef, isPlayingRef, nextPlayTimeRef,
    currentTranscriptRef, accumulatedTranscriptRef,
    currentResponseRef, accumulatedResponseRef, isAssistantSpeakingRef,
    \* environment: sockets, capture objects, clock, pending async handlers
    ws, wsCount, uuidCount, clock, pc, pollTimer, stream, ctx, node,
    \* the profile values each pending handleRecordingStart closed over
    closure,
    \* observation
    lastOp, stopped, scheduled, arrived, fragsT, fragsR, interrupted, staleTurn,
    \* the last start_session message handed to a socket
    lastStartSession,
    \* the last sample the fallback encoder read and the value it stored
    inputSample, int16Sample

stateVars == <<isRecording, transcript, streamingResponse, response, chatHistory,
               isProcessing, isAssistantSpeaking, connectionStatus,
               transcriptAnalysis, isAnalyzing, showUserInfoModal, hasStartedOnce>>
turnRefs  == <<currentTranscriptRef, accumulatedTranscriptRef,
               currentResponseRef, accumulatedResponseRef>>
playRefs  == <<audioQueueRef, isPlayingRef, nextPlayTimeRef>>
capRefs   == <<audioContextRef, audioStreamRef, workletNodeRef>>
capObjs   == <<stream, ctx, node>>
profileVars == <<userName, userRole, userIndustry, yearsOfExperience>>
encVars   == <<inputSample, int16Sample>>
ctxVars   == <<profileVars, closure, lastStartSession, encVars>>
obsVars   == <<scheduled, arrived, fragsT, fragsR, interrupted, staleTurn>>
vars == <<stateVars, turnRefs, playRefs, capRefs, capObjs, obsVars,
          websocketRef, sessionIdRef, isAssistantSpeakingRef,
          ws, wsCount, stopped, uuidCount, clock, pc, pollTimer, ctxVars, lastOp>>

\* ---------------------------------------------------------------- helpers
Max(a, b) == IF a >= b THEN a ELSE b

\* JavaScript truthiness of a string
Truthy(s) == Len(s) > 0

\* a || b on strings
OrElse(a, b) == IF Truthy(a) THEN a ELSE b

NoSocket == [readyState |-> "NONE", sessionId |-> 0, closureStatus |-> "ready",
             sent |-> <<>>]

\* websocketRef.current?.readyState
RefReadyState == IF websocketRef = NULL THEN "undefined" ELSE ws[websocketRef].readyState

\* websocketRef.current.send(msg)
Send(msg) == [ws EXCEPT ![websocketRef].sent = Append(@, msg)]

\* the send log of the current socket still has room (bound of the model)
Room == websocketRef # NULL => Len(ws[websocketRef].sent) < MaxSent

\* setResponse(null)
NoResponse == <<>>

\* nothing handed to a socket yet
NoMessage == [type |-> "none"]

\* the four profile fields as the current render sees them
Profile == [name |-> userName, role |-> userRole, industry |-> userIndustry,
            years_of_experience |-> yearsOfExperience]

ProfileKeys == {"name", "role", "industry", "years_of_experience"}

\* String.prototype.trim that leaves the string as it is
TrimNothing(s) == s

\* String.prototype.trim: leading and trailing white space removed
RECURSIVE Trim(_)
Trim(s) ==
    IF s = <<>> THEN s
    ELSE IF Head(s) = SPACE THEN Trim(Tail(s))
    ELSE IF s[Len(s)] = SPACE THEN Trim(SubSeq(s, 1, Len(s) - 1))
    ELSE s

\* userContext: a key for every field whose trimmed value is truthy
UserContext(prof) ==
    [k \in {f \in ProfileKeys : Trim(prof[f]) # <<>>} |-> Trim(prof[k])]

\* JSON.stringify({type, context}): a key whose value is undefined is left out
StartSessionMessage(prof) ==
    IF DOMAIN UserContext(prof) # {}
    THEN [type |-> "start_session", context |-> UserContext(prof)]
    ELSE [type |-> "start_session"]

Init ==
    /\ isRecording = FALSE
    /\ transcript = <<>>
    /\ streamingResponse = <<>>
    /\ response = NoResponse
    /\ chatHistory = <<>>
    /\ isProcessing = FALSE
    /\ isAssistantSpeaking = FALSE
    /\ connectionStatus = "ready"
    /\ transcriptAnalysis = "null"
    /\ isAnalyzing = FALSE
    /\ showUserInfoModal = FALSE
    /\ hasStartedOnce = FALSE
    /\ websocketRef = NULL
    /\ audioContextRef = NULL
    /\ audioStreamRef = NULL
    /\ workletNodeRef = NULL
    /\ sessionIdRef = 1
    /\ audioQueueRef = <<>>
    /\ isPlayingRef = FALSE
    /\ nextPlayTimeRef = 0
    /\ currentTranscriptRef = <<>>
    /\ accumulatedTranscriptRef = <<>>
    /\ currentResponseRef = <<>>
    /\ accumulatedResponseRef = <<>>
    /\ isAssistantSpeakingRef = FALSE
    /\ ws = [c \in Chans |-> NoSocket]
    /\ wsCount = 0
    /\ uuidCount = 1
    /\ clock = 0
    /\ userName = <<>>
    /\ userRole = <<>>
    /\ userIndustry = <<>>
    /\ yearsOfExperience = <<>>
    /\ closure = [p \in Procs |-> Profile]
    /\ lastStartSession = NoMessage
    /\ inputSample = 0
    /\ int16Sample = 0
    /\ pc = [p \in Procs |-> "idle"]
    /\ pollTimer = [p \in Procs |-> 0]
    /\ stream = [p \in Procs |-> "none"]
    /\ ctx = [p \in Procs |-> "none"]
    /\ node = [p \in Procs |-> "none"]
    /\ lastOp = "mount"
    /\ stopped = FALSE
    /\ scheduled = <<>>
    /\ arrived = <<>>
    /\ fragsT = <<>>
    /\ fragsR = <<>>
    /\ interrupted = FALSE
    /\ staleTurn = FALSE

\* ------------------------------------------------------ playback scheduler
\* atob, the Int16Array view and createBuffer of playNextAudioChunk: any of
\* them throwing lands in the catch and the frame is skipped
DecodeOk(f) ==
    /\ f.valid
    /\ f.bytes % BytesPerSample = 0
    /\ f.bytes \div BytesPerSample >= AUDIO_CHANNELS

\* audioBuffer.duration, in sample periods
Duration(f) == f.bytes \div BytesPerSample

\* a start time that forgets the cursor
StartTimeNow(now, cursor) == now

\* Math.max(currentTime, nextPlayTimeRef.current)
StartTime(now, cursor) == Max(now, cursor)

\* the while loop of playNextAudioChunk over the queue q, from cursor t
RECURSIVE DrainLoop(_, _, _)
DrainLoop(q, t, s) ==
    IF q = <<>> THEN [cursor |-> t, sched |-> s]
    ELSE LET f  == Head(q)
             st == StartTime(clock, t)
         IN IF DecodeOk(f)
            THEN DrainLoop(Tail(q), st + Duration(f),
                           Append(s, [start |-> st, dur |-> Duration(f)]))
            ELSE DrainLoop(Tail(q), t, s)

\* a drain that walks the queue without removing what it schedules
playNextAudioChunkKeeping(q) ==
    IF isPlayingRef \/ q = <<>>
    THEN /\ audioQueueRef' = q
         /\ UNCHANGED <<isPlayingRef, nextPlayTimeRef, scheduled>>
    ELSE LET r == DrainLoop(q, nextPlayTimeRef, scheduled)
         IN /\ audioQueueRef' = q
            /\ isPlayingRef' = FALSE
            /\ nextPlayTimeRef' = r.cursor
            /\ scheduled' = r.sched

\* a drain that never clears its guard
playNextAudioChunkHolding(q) ==
    IF isPlayingRef \/ q = <<>>
    THEN /\ audioQueueRef' = q
         /\ UNCHANGED <<isPlayingRef, nextPlayTimeRef, scheduled>>
    ELSE LET r == DrainLoop(q, nextPlayTimeRef, scheduled)
         IN /\ audioQueueRef' = <<>>
            /\ isPlayingRef' = TRUE
            /\ nextPlayTimeRef' = r.cursor
            /\ scheduled' = r.sched

\* a drain without the try/catch: a frame that fails to decode ends the loop
\* with the guard still set
playNextAudioChunkThrowing(q) ==
    IF isPlayingRef \/ q = <<>>
    THEN /\ audioQueueRef' = q
         /\ UNCHANGED <<isPlayingRef, nextPlayTimeRef, scheduled>>
    ELSE IF ~DecodeOk(Head(q))
    THEN /\ audioQueueRef' = Tail(q)
         /\ isPlayingRef' = TRUE
         /\ UNCHANGED <<nextPlayTimeRef, scheduled>>
    ELSE LET r == DrainLoop(q, nextPlayTimeRef, scheduled)
         IN /\ audioQueueRef' = <<>>
            /\ isPlayingRef' = FALSE
            /\ nextPlayTimeRef' = r.cursor
            /\ scheduled' = r.sched

\* playNextAudioChunk called with the queue already holding q
playNextAudioChunk(q) ==
    IF isPlayingRef \/ q = <<>>
    THEN /\ audioQueueRef' = q
         /\ UNCHANGED <<isPlayingRef, nextPlayTimeRef, scheduled>>
    ELSE LET r == DrainLoop(q, nextPlayTimeRef, scheduled)
         IN /\ audioQueueRef' = <<>>
            /\ isPlayingRef' = FALSE
            /\ nextPlayTimeRef' = r.cursor
            /\ scheduled' = r.sched

\* --------------------------------------------------------- turn accumulator
\* a join that forgets the separating space
AccumulateNoSpace(acc, text) == acc \o text

\* accumulated += ' ' + text, or accumulated = text when it is still empty
Accumulate(acc, text) == IF Truthy(acc) THEN acc \o <<SPACE>> \o text ELSE text

\* a commit that takes the last utterance alone
CommitLastUtterance == currentTranscriptRef

CommitUserMsg == OrElse(accumulatedTranscriptRef, currentTranscriptRef)
CommitAssistantMsg == OrElse(accumulatedResponseRef, currentResponseRef)

NewChatItem(userMsg, assistantMsg) ==
    [id |-> Len(chatHistory) + 1, userMessage |-> userMsg,
     assistantMessage |-> assistantMsg, timestamp |-> clock]

finalizeResponse ==
    LET userMsg == CommitUserMsg
        assistantMsg == CommitAssistantMsg
    IN /\ IF Truthy(userMsg) \/ Truthy(assistantMsg)
          THEN /\ chatHistory' = Append(chatHistory, NewChatItem(userMsg, assistantMsg))
               /\ response' = <<[transcription |-> userMsg, text |-> assistantMsg]>>
          ELSE UNCHANGED <<chatHistory, response>>
       /\ isProcessing' = FALSE
       /\ transcript' = <<>>
       /\ streamingResponse' = <<>>
       /\ currentTranscriptRef' = <<>>
       /\ accumulatedTranscriptRef' = <<>>
       /\ currentResponseRef' = <<>>
       /\ accumulatedResponseRef' = <<>>

\* ------------------------------------------------------------ ws.onmessage
\* bound of the model: fragments still to be delivered in this run
TextRoom == Len(fragsT) + Len(fragsR) < MaxFrags /\ Len(chatHistory) < MaxHistory

Delivers(c) == ws[c].readyState = "OPEN"

sessionVars == <<isRecording, showUserInfoModal, hasStartedOnce, websocketRef,
                 sessionIdRef, ws, wsCount, stopped, uuidCount, clock, ctxVars, pc, pollTimer,
                 capRefs, capObjs>>

\* a dispatch whose default case gives the session up
OnInformationalFatal(c, type) ==
    /\ Delivers(c)
    /\ connectionStatus' = IF type = "unknown" THEN "error" ELSE connectionStatus
    /\ UNCHANGED <<isRecording, transcript, streamingResponse, response, chatHistory,
                   isProcessing, isAssistantSpeaking, transcriptAnalysis,
                   isAnalyzing, showUserInfoModal, hasStartedOnce,
                   turnRefs, playRefs, capRefs, capObjs, obsVars,
                   websocketRef, sessionIdRef, isAssistantSpeakingRef,
                   ws, wsCount, stopped, uuidCount, clock, ctxVars, pc, pollTimer>>

OnInformational(c, type) ==
    /\ Delivers(c)
    /\ UNCHANGED <<stateVars, turnRefs, playRefs, capRefs, capObjs, obsVars,
                   websocketRef, sessionIdRef, isAssistantSpeakingRef,
                   ws, wsCount, stopped, uuidCount, clock, ctxVars, pc, pollTimer>>

OnSpeechStarted(c) ==
    /\ Delivers(c)
    /\ isProcessing' = TRUE
    /\ staleTurn' = (staleTurn \/ Truthy(accumulatedTranscriptRef)
                               \/ Truthy(accumulatedResponseRef))
    /\ lastOp' = "other"
    /\ UNCHANGED <<sessionVars, turnRefs, playRefs, scheduled, arrived, fragsT, fragsR,
                   interrupted, transcript,
                   streamingResponse, response, chatHistory, isAssistantSpeaking,
                   connectionStatus, transcriptAnalysis, isAnalyzing,
                   isAssistantSpeakingRef>>

OnTranscript(c, text) ==
    /\ Delivers(c)
    /\ TextRoom
    /\ accumulatedTranscriptRef' = Accumulate(accumulatedTranscriptRef, text)
    /\ currentTranscriptRef' = text
    /\ transcript' = accumulatedTranscriptRef'
    /\ fragsT' = Append(fragsT, text)
    /\ lastOp' = "other"
    /\ UNCHANGED <<sessionVars, playRefs, currentResponseRef, accumulatedResponseRef,
                   streamingResponse, response, chatHistory, isProcessing,
                   isAssistantSpeaking, connectionStatus, transcriptAnalysis,
                   isAnalyzing, isAssistantSpeakingRef, scheduled, arrived, fragsR, interrupted,
                   staleTurn>>

OnThinking(c) ==
    /\ Delivers(c)
    /\ isProcessing' = TRUE
    /\ lastOp' = "other"
    /\ UNCHANGED <<sessionVars, turnRefs, playRefs, obsVars, transcript,
                   streamingResponse, response, chatHistory, isAssistantSpeaking,
                   connectionStatus, transcriptAnalysis, isAnalyzing,
                   isAssistantSpeakingRef>>

OnResponse(c, text) ==
    /\ Delivers(c)
    /\ TextRoom
    /\ accumulatedResponseRef' = Accumulate(accumulatedResponseRef, text)
    /\ currentResponseRef' = text
    /\ streamingResponse' = accumulatedResponseRef'
    /\ fragsR' = Append(fragsR, text)
    /\ lastOp' = "other"
    /\ UNCHANGED <<sessionVars, playRefs, currentTranscriptRef,
                   accumulatedTranscriptRef, transcript, response, chatHistory,
                   isProcessing, isAssistantSpeaking, connectionStatus,
                   transcriptAnalysis, isAnalyzing, isAssistantSpeakingRef,
                   scheduled, arrived, fragsT, interrupted, staleTurn>>

\* a playback_started case that leaves the processing flag as it is
OnPlaybackStartedStillProcessing(c) ==
    /\ Delivers(c)
    /\ isAssistantSpeaking' = TRUE
    /\ isAssistantSpeakingRef' = TRUE
    /\ lastOp' = "other"
    /\ UNCHANGED <<sessionVars, turnRefs, playRefs, obsVars, transcript,
                   streamingResponse, response, chatHistory, connectionStatus,
                   transcriptAnalysis, isAnalyzing, isProcessing>>

OnPlaybackStarted(c) ==
    /\ Delivers(c)
    /\ isAssistantSpeaking' = TRUE
    /\ isAssistantSpeakingRef' = TRUE
    /\ isProcessing' = FALSE
    /\ lastOp' = "other"
    /\ UNCHANGED <<sessionVars, turnRefs, playRefs, obsVars, transcript,
                   streamingResponse, response, chatHistory, connectionStatus,
                   transcriptAnalysis, isAnalyzing>>

OnPlaybackFinished(c) ==
    /\ Delivers(c)
    /\ Len(chatHistory) < MaxHistory \/ ~(Truthy(CommitUserMsg) \/ Truthy(CommitAssistantMsg))
    /\ isAssistantSpeaking' = FALSE
    /\ isAssistantSpeakingRef' = FALSE
    /\ finalizeResponse
    /\ fragsT' = <<>>
    /\ fragsR' = <<>>
    /\ interrupted' = FALSE
    /\ staleTurn' = FALSE
    /\ lastOp' = "other"
    /\ UNCHANGED <<sessionVars, playRefs, connectionStatus, transcriptAnalysis,
                   isAnalyzing, scheduled, arrived>>

\* an audio_chunk case that queues the frame and leaves the drain to later
OnAudioChunkQueueOnly(c, frame) ==
    /\ Delivers(c)
    /\ Len(arrived) < MaxFrames
    /\ audioQueueRef' = Append(audioQueueRef, frame)
    /\ arrived' = Append(arrived, [frame |-> frame, afterStop |-> stopped])
    /\ lastOp' = "other"
    /\ UNCHANGED <<sessionVars, stateVars, turnRefs, isAssistantSpeakingRef,
                   isPlayingRef, nextPlayTimeRef, scheduled,
                   fragsT, fragsR, interrupted, staleTurn>>

OnAudioChunk(c, frame) ==
    /\ Delivers(c)
    /\ Len(arrived) < MaxFrames
    /\ playNextAudioChunk(Append(audioQueueRef, frame))
    /\ arrived' = Append(arrived, [frame |-> frame, afterStop |-> stopped])
    /\ lastOp' = "other"
    /\ UNCHANGED <<sessionVars, stateVars, turnRefs, isAssistantSpeakingRef,
                   fragsT, fragsR, interrupted, staleTurn>>

\* an error handler that also drops the unfinished turn
OnErrorClearing(c) ==
    /\ Delivers(c)
    /\ isProcessing' = FALSE
    /\ isAnalyzing' = FALSE
    /\ connectionStatus' = "error"
    /\ currentTranscriptRef' = <<>>
    /\ accumulatedTranscriptRef' = <<>>
    /\ currentResponseRef' = <<>>
    /\ accumulatedResponseRef' = <<>>
    /\ interrupted' = FALSE
    /\ lastOp' = "other"
    /\ UNCHANGED <<sessionVars, playRefs, transcript, streamingResponse,
                   response, chatHistory, isAssistantSpeaking, transcriptAnalysis,
                   isAssistantSpeakingRef, scheduled, arrived, fragsT, fragsR,
                   staleTurn>>

OnError(c) ==
    /\ Delivers(c)
    /\ isProcessing' = FALSE
    /\ isAnalyzing' = FALSE
    /\ connectionStatus' = "error"
    /\ interrupted' = (interrupted \/ Truthy(accumulatedTranscriptRef)
                                   \/ Truthy(accumulatedResponseRef))
    /\ lastOp' = "other"
    /\ UNCHANGED <<sessionVars, turnRefs, playRefs, transcript, streamingResponse,
                   response, chatHistory, isAssistantSpeaking, transcriptAnalysis,
                   isAssistantSpeakingRef, scheduled, arrived, fragsT, fragsR,
                   staleTurn>>

OnTranscriptAnalysis(c, analysis) ==
    /\ Delivers(c)
    /\ transcriptAnalysis' = analysis
    /\ isAnalyzing' = FALSE
    /\ lastOp' = "other"
    /\ UNCHANGED <<sessionVars, turnRefs, playRefs, obsVars, transcript,
                   streamingResponse, response, chatHistory, isProcessing,
                   isAssistantSpeaking, connectionStatus, isAssistantSpeakingRef>>

\* ---------------------------------------------------------- socket events
protoVars == <<transcript, streamingResponse, response, chatHistory, isProcessing,
               isAssistantSpeaking, transcriptAnalysis, isAnalyzing,
               isAssistantSpeakingRef, turnRefs, playRefs, obsVars>>

\* ws.onopen
WsOpen(c) ==
    /\ ws[c].readyState = "CONNECTING"
    /\ ws' = [ws EXCEPT ![c].readyState = "OPEN"]
    /\ connectionStatus' = "connected"
    /\ lastOp' = "other"
    /\ UNCHANGED <<protoVars, isRecording, showUserInfoModal, hasStartedOnce,
                   websocketRef, sessionIdRef, wsCount, stopped, uuidCount, clock, ctxVars, pc, pollTimer,
                   capRefs, capObjs>>

\* ws.onclose: connectionStatus is the value the handler closed over when
\* initializeWebSocket built it
OnCloseStatus(c, status) == IF ws[c].closureStatus # "error" THEN "ready" ELSE status

\* the connection fails (never opens, or breaks): ws.onerror, then ws.onclose
WsFail(c) ==
    /\ ws[c].readyState \in {"CONNECTING", "OPEN", "CLOSING"}
    /\ ws' = [ws EXCEPT ![c].readyState = "CLOSED"]
    /\ connectionStatus' = OnCloseStatus(c, "error")
    /\ lastOp' = "other"
    /\ UNCHANGED <<protoVars, isRecording, showUserInfoModal, hasStartedOnce,
                   websocketRef, sessionIdRef, wsCount, stopped, uuidCount, clock, ctxVars, pc, pollTimer,
                   capRefs, capObjs>>

\* the connection closes without a transport error: ws.onclose alone
WsClose(c) ==
    /\ ws[c].readyState \in {"OPEN", "CLOSING"}
    /\ ws' = [ws EXCEPT ![c].readyState = "CLOSED"]
    /\ connectionStatus' = OnCloseStatus(c, connectionStatus)
    /\ lastOp' = "other"
    /\ UNCHANGED <<protoVars, isRecording, showUserInfoModal, hasStartedOnce,
                   websocketRef, sessionIdRef, wsCount, stopped, uuidCount, clock, ctxVars, pc, pollTimer,
                   capRefs, capObjs>>

\* ------------------------------------------------------ handleRecordingStart
\* a slot for one invocation: no invocation pending in it, its capture
\* objects gone and no ref still naming them
FreeSlot(p) ==
    /\ pc[p] = "idle"
    /\ stream[p] = "none" /\ ctx[p] = "none" /\ node[p] = "none"
    /\ audioContextRef # p /\ audioStreamRef # p /\ workletNodeRef # p

\* a generator that hands out the identity the session already has
uuidv4Reused == IF sessionIdRef # NULL THEN sessionIdRef ELSE uuidCount + 1

\* uuidv4(): a token no earlier call returned
uuidv4 == uuidCount + 1

NeedsNewSession == websocketRef = NULL \/ RefReadyState # "OPEN"

\* initializeWebSocket with the session identity sid
initializeWebSocket(sid) ==
    IF sid = NULL
    THEN /\ connectionStatus' = "error"
         /\ UNCHANGED <<ws, wsCount, websocketRef>>
    ELSE IF websocketRef # NULL /\ RefReadyState = "OPEN"
    THEN UNCHANGED <<ws, wsCount, websocketRef, connectionStatus>>
    ELSE /\ wsCount' = wsCount + 1
         /\ ws' = [ws EXCEPT ![wsCount + 1] =
                      [readyState |-> "CONNECTING", sessionId |-> sid,
                       closureStatus |-> connectionStatus, sent |-> <<>>]]
         /\ websocketRef' = wsCount + 1
         /\ UNCHANGED connectionStatus

\* the invocation in slot p moves on to its next await (or ends)
Goto(p, at) ==
    /\ pc' = [pc EXCEPT ![p] = at]
    /\ pollTimer' = [pollTimer EXCEPT ![p] = 0]

\* the catch block of handleRecordingStart
StartFailed(p) ==
    /\ isRecording' = FALSE
    /\ connectionStatus' = "error"
    /\ Goto(p, "idle")

\* the synchronous part up to the first await
handleRecordingStart(p) ==
    /\ FreeSlot(p)
    /\ closure' = [closure EXCEPT ![p] = Profile]
    /\ IF connectionStatus = "error"
       THEN /\ lastOp' = "start_refused"
            /\ UNCHANGED <<isRecording, hasStartedOnce, response, transcript,
                           streamingResponse, connectionStatus, chatHistory,
                           isProcessing, isAssistantSpeaking, transcriptAnalysis,
                           isAnalyzing, playRefs, websocketRef, sessionIdRef,
                           ws, wsCount, uuidCount, pc, pollTimer>>
       ELSE /\ isRecording' = TRUE
            /\ hasStartedOnce' = TRUE
            /\ response' = NoResponse
            /\ transcript' = <<>>
            /\ streamingResponse' = <<>>
            /\ audioQueueRef' = <<>>
            /\ nextPlayTimeRef' = 0
            /\ lastOp' = "start"
            /\ IF NeedsNewSession
               THEN /\ wsCount < MaxChannels
                    /\ uuidCount < MaxUuid
                    /\ uuidCount' = uuidCount + 1
                    /\ sessionIdRef' = uuidv4
                    /\ initializeWebSocket(uuidv4)
                    /\ Goto(p, "wait")
               ELSE /\ Goto(p, "mic")
                    /\ UNCHANGED <<websocketRef, sessionIdRef, ws, wsCount,
                                   uuidCount, connectionStatus>>
            /\ UNCHANGED <<chatHistory, isProcessing, isAssistantSpeaking,
                           transcriptAnalysis, isAnalyzing, isPlayingRef>>
    /\ stopped' = FALSE
    /\ UNCHANGED <<turnRefs, capRefs, capObjs, obsVars, isAssistantSpeakingRef, clock, profileVars, lastStartSession, encVars>>

\* one run of checkConnection from its timer
CheckConnection(p) ==
    /\ pc[p] = "wait"
    /\ lastOp' = "other"
    /\ IF RefReadyState = "OPEN"
       THEN /\ Room
            /\ ws' = Send("start_session")
            /\ lastStartSession' = StartSessionMessage(closure[p])
            /\ Goto(p, "delay")
            /\ UNCHANGED <<isRecording, connectionStatus>>
       ELSE IF RefReadyState \in {"CLOSING", "CLOSED"}
       THEN /\ StartFailed(p)
            /\ UNCHANGED <<ws, lastStartSession>>
       ELSE /\ pollTimer' = [pollTimer EXCEPT ![p] = 1 - @]
            /\ UNCHANGED <<ws, pc, isRecording, connectionStatus, lastStartSession>>
    /\ UNCHANGED <<protoVars, showUserInfoModal, hasStartedOnce, websocketRef,
                   sessionIdRef, wsCount, stopped, uuidCount, clock, profileVars, closure, encVars, capRefs, capObjs>>

\* the 500 ms pause after start_session ends; getUserMedia is requested
AfterStartDelay(p) ==
    /\ pc[p] = "delay"
    /\ Goto(p, "mic")
    /\ lastOp' = "other"
    /\ UNCHANGED <<stateVars, turnRefs, playRefs, capRefs, capObjs, obsVars,
                   websocketRef, sessionIdRef, isAssistantSpeakingRef,
                   ws, wsCount, stopped, uuidCount, clock, ctxVars>>

\* getUserMedia resolves: the stream and a new capture context are stored and
\* addModule is awaited
MicGranted(p) ==
    /\ pc[p] = "mic"
    /\ stream' = [stream EXCEPT ![p] = "live"]
    /\ audioStreamRef' = p
    /\ ctx' = [ctx EXCEPT ![p] = "open"]
    /\ audioContextRef' = p
    /\ Goto(p, "worklet")
    /\ lastOp' = "other"
    /\ UNCHANGED <<stateVars, turnRefs, playRefs, obsVars, workletNodeRef, node,
                   websocketRef, sessionIdRef, isAssistantSpeakingRef,
                   ws, wsCount, stopped, uuidCount, clock, ctxVars>>

\* a catch block that leaves the recording flag set
MicDeniedStillRecording(p) ==
    /\ pc[p] = "mic"
    /\ connectionStatus' = "error"
    /\ Goto(p, "idle")
    /\ lastOp' = "other"
    /\ UNCHANGED <<protoVars, isRecording, showUserInfoModal, hasStartedOnce,
                   websocketRef, sessionIdRef, ws, wsCount, stopped, uuidCount,
                   clock, ctxVars, capRefs, capObjs>>

\* getUserMedia rejects
MicDenied(p) ==
    /\ pc[p] = "mic"
    /\ StartFailed(p)
    /\ lastOp' = "other"
    /\ UNCHANGED <<protoVars, showUserInfoModal, hasStartedOnce, websocketRef,
                   sessionIdRef, ws, wsCount, stopped, uuidCount, clock, ctxVars, capRefs, capObjs>>

\* addModule settles.  The node is built on audioContextRef.current and the
\* source of this invocation's own context is connected to it: with the ref
\* null or naming another context both the worklet and the fallback branch
\* throw and the outer catch runs.
CaptureNodeReady(p, kind) ==
    /\ pc[p] = "worklet"
    /\ lastOp' = "other"
    /\ IF audioContextRef = p
       THEN /\ node' = [node EXCEPT ![p] = kind]
            /\ workletNodeRef' = p
            /\ Goto(p, "idle")
            /\ UNCHANGED <<isRecording, connectionStatus>>
       ELSE /\ StartFailed(p)
            /\ UNCHANGED <<node, workletNodeRef>>
    /\ UNCHANGED <<protoVars, showUserInfoModal, hasStartedOnce, websocketRef,
                   sessionIdRef, ws, wsCount, stopped, uuidCount, clock, ctxVars,
                   audioContextRef, audioStreamRef, stream, ctx>>

\* ---------------------------------------------------------- capture batches
CaptureLive(p) == node[p] # "none" /\ ctx[p] = "open"

\* workletNode.port.onmessage for a batch of type 'audio'
WorkletSends == RefReadyState = "OPEN" /\ ~isAssistantSpeakingRef

\* processorNode.onaudioprocess
FallbackSends == RefReadyState = "OPEN"

BatchSends(kind) == IF kind = "worklet" THEN WorkletSends ELSE FallbackSends

CaptureBatch(p) ==
    /\ CaptureLive(p)
    /\ IF BatchSends(node[p])
       THEN /\ Room
            /\ ws' = Send("audio_chunk")
            /\ lastOp' = "other"
       ELSE /\ UNCHANGED ws
            /\ lastOp' = "other"
    /\ UNCHANGED <<stateVars, turnRefs, playRefs, capRefs, capObjs, obsVars,
                   websocketRef, sessionIdRef, isAssistantSpeakingRef,
                   wsCount, stopped, uuidCount, clock, ctxVars, pc, pollTimer>>

\* Samples are counted in units of 1/GridDen, so inputData[i] = n / GridDen.
\* Math.max(-1, Math.min(1, inputData[i]))
Clamp(n) == Max(0 - GridDen, IF n <= GridDen THEN n ELSE GridDen)

\* s < 0 ? s * 0x8000 : s * 0x7FFF, as a numerator over GridDen
Scale(n) == IF n < 0 THEN n * NegScale ELSE n * PosScale

\* the integer part of num / den, towards zero
Truncate(num, den) == IF num >= 0 THEN num \div den ELSE 0 - ((0 - num) \div den)

\* a store that rounds to the nearest integer, halves upwards
RoundNearest(num, den) == (2 * num + den) \div (2 * den)

\* a store that keeps the nearest integer instead of the integer part
ToInt16Rounding(num, den) ==
    LET m == RoundNearest(num, den) % 65536
    IN IF m >= 32768 THEN m - 65536 ELSE m

\* the store into an Int16Array element: the number loses its fraction and
\* wraps modulo 2^16 into the signed range
ToInt16(num, den) ==
    LET m == Truncate(num, den) % 65536
    IN IF m >= 32768 THEN m - 65536 ELSE m

\* one pass of the loop of processorNode.onaudioprocess over a sample
EncodeSample(p, n) ==
    /\ CaptureLive(p)
    /\ node[p] = "fallback"
    /\ FallbackSends
    /\ inputSample' = n
    /\ int16Sample' = ToInt16(Scale(Clamp(n)), GridDen)
    /\ lastOp' = "other"
    /\ UNCHANGED <<stateVars, turnRefs, playRefs, capRefs, capObjs, obsVars,
                   websocketRef, sessionIdRef, isAssistantSpeakingRef,
                   ws, wsCount, stopped, uuidCount, clock, pc, pollTimer,
                   profileVars, closure, lastStartSession>>

\* ------------------------------------------------ stop, teardown, reconnect
\* disconnect the node, close the capture context, stop the stream tracks
ReleaseCapture ==
    /\ node' = IF workletNodeRef # NULL
               THEN [node EXCEPT ![workletNodeRef] = "none"] ELSE node
    /\ workletNodeRef' = NULL
    /\ ctx' = IF audioContextRef # NULL
              THEN [ctx EXCEPT ![audioContextRef] = "none"] ELSE ctx
    /\ audioContextRef' = NULL
    /\ stream' = IF audioStreamRef # NULL
                 THEN [stream EXCEPT ![audioStreamRef] = "none"] ELSE stream
    /\ audioStreamRef' = NULL

\* an end of stop that sends whenever a channel is held, open or not
StopSendsEndAnyState == websocketRef # NULL

\* the end of handleRecordingStop: end_session only on an OPEN socket
StopSendsEnd == RefReadyState = "OPEN"

\* a stop that also resets the playback scheduler, as a start does
handleRecordingStopResetting ==
    /\ isRecording' = FALSE
    /\ ReleaseCapture
    /\ IF StopSendsEnd
       THEN /\ Room
            /\ isAnalyzing' = TRUE
            /\ ws' = Send("end_session")
       ELSE UNCHANGED <<isAnalyzing, ws>>
    /\ audioQueueRef' = <<>>
    /\ nextPlayTimeRef' = 0
    /\ lastOp' = "stop"
    /\ stopped' = TRUE
    /\ UNCHANGED <<transcript, streamingResponse, response, chatHistory,
                   isProcessing, isAssistantSpeaking, connectionStatus,
                   transcriptAnalysis, hasStartedOnce, turnRefs, isPlayingRef,
                   obsVars, websocketRef, sessionIdRef, isAssistantSpeakingRef,
                   wsCount, uuidCount, clock, ctxVars, pc, pollTimer>>

handleRecordingStop ==
    /\ isRecording' = FALSE
    /\ ReleaseCapture
    /\ IF StopSendsEnd
       THEN /\ Room
            /\ isAnalyzing' = TRUE
            /\ ws' = Send("end_session")
       ELSE UNCHANGED <<isAnalyzing, ws>>
    /\ lastOp' = "stop"
    /\ stopped' = TRUE
    /\ UNCHANGED <<transcript, streamingResponse, response, chatHistory,
                   isProcessing, isAssistantSpeaking, connectionStatus,
                   transcriptAnalysis, hasStartedOnce, turnRefs, playRefs,
                   obsVars, websocketRef, sessionIdRef, isAssistantSpeakingRef,
                   wsCount, uuidCount, clock, ctxVars, pc, pollTimer>>

\* websocketRef.current.close()
CloseSocket(state) == IF state \in {"CONNECTING", "OPEN"} THEN "CLOSING" ELSE state

\* a teardown that closes the channel before it looks whether it is open
cleanupClosingFirst ==
    /\ IF websocketRef # NULL
       THEN /\ Room
            /\ ws' = [ws EXCEPT ![websocketRef].readyState = CloseSocket(@)]
       ELSE UNCHANGED ws
    /\ websocketRef' = NULL
    /\ ReleaseCapture
    /\ audioQueueRef' = <<>>

cleanup ==
    /\ IF websocketRef # NULL
       THEN /\ Room
            /\ ws' = [ws EXCEPT
                         ![websocketRef].sent = IF RefReadyState = "OPEN"
                                                THEN Append(@, "end_session") ELSE @,
                         ![websocketRef].readyState = CloseSocket(@)]
       ELSE UNCHANGED ws
    /\ websocketRef' = NULL
    /\ ReleaseCapture
    /\ audioQueueRef' = <<>>

\* a reconnect that also empties the conversation history
handleReconnectForgetting ==
    /\ uuidCount < MaxUuid
    /\ cleanup
    /\ uuidCount' = uuidCount + 1
    /\ sessionIdRef' = uuidv4
    /\ connectionStatus' = "ready"
    /\ response' = NoResponse
    /\ transcript' = <<>>
    /\ streamingResponse' = <<>>
    /\ isProcessing' = FALSE
    /\ chatHistory' = <<>>
    /\ lastOp' = "reconnect"
    /\ UNCHANGED <<isRecording, isAssistantSpeaking, transcriptAnalysis,
                   isAnalyzing, showUserInfoModal, hasStartedOnce, turnRefs,
                   isPlayingRef, nextPlayTimeRef, obsVars, isAssistantSpeakingRef,
                   wsCount, stopped, clock, ctxVars, pc, pollTimer>>

handleReconnect ==
    /\ uuidCount < MaxUuid
    /\ cleanup
    /\ uuidCount' = uuidCount + 1
    /\ sessionIdRef' = uuidv4
    /\ connectionStatus' = "ready"
    /\ response' = NoResponse
    /\ transcript' = <<>>
    /\ streamingResponse' = <<>>
    /\ isProcessing' = FALSE
    /\ lastOp' = "reconnect"
    /\ UNCHANGED <<isRecording, chatHistory, isAssistantSpeaking, transcriptAnalysis,
                   isAnalyzing, showUserInfoModal, hasStartedOnce, turnRefs,
                   isPlayingRef, nextPlayTimeRef, obsVars, isAssistantSpeakingRef,
                   wsCount, stopped, clock, ctxVars, pc, pollTimer>>

\* ------------------------------------------------------------------ controls
\* the disabled attribute of the mic button
MicDisabled ==
    isProcessing \/ isAssistantSpeaking \/ (connectionStatus = "error" /\ ~isRecording)

\* the reconnect button is rendered
ReconnectOffered == connectionStatus = "error"

handleMicClick(p) ==
    IF isRecording
    THEN handleRecordingStop /\ UNCHANGED showUserInfoModal
    ELSE IF ~hasStartedOnce
    THEN /\ showUserInfoModal' = TRUE
         /\ lastOp' = "other"
         /\ UNCHANGED <<isRecording, transcript, streamingResponse, response,
                        chatHistory, isProcessing, isAssistantSpeaking,
                        connectionStatus, transcriptAnalysis, isAnalyzing,
                        hasStartedOnce, turnRefs, playRefs, capRefs, capObjs,
                        obsVars, websocketRef, sessionIdRef, isAssistantSpeakingRef,
                        ws, wsCount, stopped, uuidCount, clock, ctxVars, pc, pollTimer>>
    ELSE handleRecordingStart(p) /\ UNCHANGED showUserInfoModal

MicClick(p) == ~MicDisabled /\ handleMicClick(p)

\* the primary button of the profile modal
ModalConfirm(p) ==
    /\ showUserInfoModal
    /\ showUserInfoModal' = FALSE
    /\ IF ~hasStartedOnce
       THEN handleRecordingStart(p)
       ELSE /\ lastOp' = "other"
            /\ UNCHANGED <<isRecording, transcript, streamingResponse, response,
                           chatHistory, isProcessing, isAssistantSpeaking,
                           connectionStatus, transcriptAnalysis, isAnalyzing,
                           hasStartedOnce, turnRefs, playRefs, capRefs, capObjs,
                           obsVars, websocketRef, sessionIdRef,
                           isAssistantSpeakingRef, ws, wsCount, stopped, uuidCount, clock, ctxVars, pc, pollTimer>>

\* onChange of one input of the profile modal
SetProfileField(k, v) ==
    /\ showUserInfoModal
    /\ userName' = IF k = "name" THEN v ELSE userName
    /\ userRole' = IF k = "role" THEN v ELSE userRole
    /\ userIndustry' = IF k = "industry" THEN v ELSE userIndustry
    /\ yearsOfExperience' = IF k = "years_of_experience" THEN v ELSE yearsOfExperience
    /\ lastOp' = "other"
    /\ UNCHANGED <<stateVars, turnRefs, playRefs, capRefs, capObjs, obsVars,
                   websocketRef, sessionIdRef, isAssistantSpeakingRef,
                   ws, wsCount, stopped, uuidCount, clock, pc, pollTimer,
                   closure, lastStartSession, encVars>>

\* the "Edit profile" link under the title: shown with some profile set and
\* no recording
EditProfileClick ==
    /\ Truthy(userName) \/ Truthy(userRole) \/ Truthy(yearsOfExperience)
    /\ ~isRecording
    /\ showUserInfoModal' = TRUE
    /\ lastOp' = "other"
    /\ UNCHANGED <<isRecording, transcript, streamingResponse, response,
                   chatHistory, isProcessing, isAssistantSpeaking,
                   connectionStatus, transcriptAnalysis, isAnalyzing,
                   hasStartedOnce, turnRefs, playRefs, capRefs, capObjs,
                   obsVars, websocketRef, sessionIdRef, isAssistantSpeakingRef,
                   ws, wsCount, stopped, uuidCount, clock, ctxVars, pc, pollTimer>>

\* the secondary button of the profile modal
ModalDismiss ==
    /\ showUserInfoModal
    /\ showUserInfoModal' = FALSE
    /\ lastOp' = "other"
    /\ UNCHANGED <<isRecording, transcript, streamingResponse, response,
                   chatHistory, isProcessing, isAssistantSpeaking,
                   connectionStatus, transcriptAnalysis, isAnalyzing,
                   hasStartedOnce, turnRefs, playRefs, capRefs, capObjs,
                   obsVars, websocketRef, sessionIdRef, isAssistantSpeakingRef,
                   ws, wsCount, stopped, uuidCount, clock, ctxVars, pc, pollTimer>>

ReconnectClick == ReconnectOffered /\ handleReconnect

\* the playback context's currentTime advances
Tick ==
    /\ clock < MaxClock
    /\ clock' = clock + 1
    /\ UNCHANGED <<stateVars, turnRefs, playRefs, capRefs, capObjs, obsVars,
                   websocketRef, sessionIdRef, isAssistantSpeakingRef,
                   ws, wsCount, stopped, uuidCount, pc, pollTimer, ctxVars, lastOp>>

\* ------------------------------------------------------------ specifications
InfoTypes == {"session_started", "agent_ready", "settings_applied", "unknown"}
CaptureKinds == {"worklet", "fallback"}

\* one invocation of handleRecordingStart in flight at a time
OneStart == {1}

\* Session and capture: overlapping start invocations, socket events, capture
\* batches and the events that move the turn-taking flags.
Next ==
    \/ \E p \in Procs : MicClick(p)
    \/ \E p \in Procs : ModalConfirm(p)
    \/ ModalDismiss
    \/ ReconnectClick
    \/ \E p \in Procs : CheckConnection(p)
    \/ \E p \in Procs : AfterStartDelay(p)
    \/ \E p \in Procs : MicGranted(p)
    \/ \E p \in Procs : MicDenied(p)
    \/ \E p \in Procs, kind \in CaptureKinds : CaptureNodeReady(p, kind)
    \/ \E p \in Procs : CaptureBatch(p)
    \/ \E c \in Chans : WsOpen(c)
    \/ \E c \in Chans : WsFail(c)
    \/ \E c \in Chans : WsClose(c)
    \/ \E c \in Chans : OnSpeechStarted(c)
    \/ \E c \in Chans : OnPlaybackStarted(c)
    \/ \E c \in Chans : OnPlaybackFinished(c)
    \/ \E c \in Chans : OnError(c)
    \/ \E c \in Chans, a \in Analyses : OnTranscriptAnalysis(c, a)

Spec == Init /\ [][Next]_vars

\* Turn taking: every inbound event that carries text or moves a flag, with
\* the user operations, one start invocation at a time.
NextTurn ==
    \/ \E p \in OneStart : MicClick(p)
    \/ \E p \in OneStart : ModalConfirm(p)
    \/ ReconnectClick
    \/ \E p \in OneStart : CheckConnection(p)
    \/ \E p \in OneStart : AfterStartDelay(p)
    \/ \E p \in OneStart : MicGranted(p)
    \/ \E p \in OneStart : MicDenied(p)
    \/ \E p \in OneStart, kind \in CaptureKinds : CaptureNodeReady(p, kind)
    \/ \E c \in Chans : WsOpen(c)
    \/ \E c \in Chans : WsFail(c)
    \/ \E c \in Chans : WsClose(c)
    \/ \E c \in Chans, t \in InfoTypes : OnInformational(c, t) /\ lastOp' = "other"
    \/ \E c \in Chans : OnSpeechStarted(c)
    \/ \E c \in Chans, t \in Texts : OnTranscript(c, t)
    \/ \E c \in Chans : OnThinking(c)
    \/ \E c \in Chans, t \in Texts : OnResponse(c, t)
    \/ \E c \in Chans : OnPlaybackStarted(c)
    \/ \E c \in Chans : OnPlaybackFinished(c)
    \/ \E c \in Chans : OnError(c)

SpecTurn == Init /\ [][NextTurn]_vars

\* Turn accumulator: the events that write or commit the accumulators
\* (transcript, response, playback_finished), the error event, and the user
\* operations that open, close and replace the channel they arrive on.
NextCommit ==
    \/ \E p \in OneStart : MicClick(p)
    \/ \E p \in OneStart : ModalConfirm(p)
    \/ ReconnectClick
    \/ \E p \in OneStart : CheckConnection(p)
    \/ \E c \in Chans : WsOpen(c)
    \/ \E c \in Chans, t \in Texts : OnTranscript(c, t)
    \/ \E c \in Chans, t \in Texts : OnResponse(c, t)
    \/ \E c \in Chans : OnPlaybackFinished(c)
    \/ \E c \in Chans : OnError(c)

SpecCommit == Init /\ [][NextCommit]_vars

\* Playback: inbound audio frames against the advancing playback clock, with
\* the user operations, one start invocation at a time.
NextPlay ==
    \/ \E p \in OneStart : MicClick(p)
    \/ \E p \in OneStart : ModalConfirm(p)
    \/ ReconnectClick
    \/ \E p \in OneStart : CheckConnection(p)
    \/ \E p \in OneStart : AfterStartDelay(p)
    \/ \E p \in OneStart : MicGranted(p)
    \/ \E p \in OneStart : MicDenied(p)
    \/ \E p \in OneStart, kind \in CaptureKinds : CaptureNodeReady(p, kind)
    \/ \E c \in Chans : WsOpen(c)
    \/ \E c \in Chans : WsClose(c)
    \/ \E c \in Chans, f \in Frames : OnAudioChunk(c, f)
    \/ Tick

SpecPlay == Init /\ [][NextPlay]_vars

\* Playback queue: inbound audio frames against the advancing playback clock
\* on a channel the user opens, stops and restarts recording on.
\* one frame of each kind the decoder tells apart: not base64, no samples,
\* half a sample too many, and two that decode to different lengths
DrainFrames ==
    {[valid |-> FALSE, bytes |-> 2], [valid |-> TRUE, bytes |-> 0],
     [valid |-> TRUE, bytes |-> 3], [valid |-> TRUE, bytes |-> 2],
     [valid |-> TRUE, bytes |-> 4]}

NextDrain ==
    \/ \E p \in OneStart : MicClick(p)
    \/ \E p \in OneStart : ModalConfirm(p)
    \/ \E p \in OneStart : CheckConnection(p)
    \/ \E p \in OneStart : AfterStartDelay(p)
    \/ \E p \in OneStart : MicGranted(p)
    \/ \E p \in OneStart, kind \in CaptureKinds : CaptureNodeReady(p, kind)
    \/ \E c \in Chans : WsOpen(c)
    \/ \E c \in Chans, f \in DrainFrames : OnAudioChunk(c, f)
    \/ Tick

SpecDrain == Init /\ [][NextDrain]_vars

\* Play-time cursor: inbound audio frames against the advancing playback
\* clock, with the operations that must leave the cursor alone (stop,
\* reconnect and its teardown, the end of an utterance) and restarts, here
\* ended early by a refused microphone.
\* a frame that does not decode and two that decode to different lengths
CursorFrames ==
    {[valid |-> FALSE, bytes |-> 2], [valid |-> TRUE, bytes |-> 2],
     [valid |-> TRUE, bytes |-> 4]}

NextCursor ==
    \/ \E p \in OneStart : MicClick(p)
    \/ \E p \in OneStart : ModalConfirm(p)
    \/ \E p \in OneStart : CheckConnection(p)
    \/ \E p \in OneStart : AfterStartDelay(p)
    \/ \E p \in OneStart : MicDenied(p)
    \/ \E c \in Chans : WsOpen(c)
    \/ \E c \in Chans, f \in CursorFrames : OnAudioChunk(c, f)
    \/ \E c \in Chans : OnPlaybackFinished(c)
    \/ ReconnectClick
    \/ Tick

SpecCursor == Init /\ [][NextCursor]_vars

\* Every inbound event type and every user operation on one channel at a
\* time, with one text and one audio frame as the events' payloads.
OneText == {<<"a">>}
OneFrame == {[valid |-> TRUE, bytes |-> 2]}

NextEvents ==
    \/ \E p \in OneStart : MicClick(p)
    \/ \E p \in OneStart : ModalConfirm(p)
    \/ ReconnectClick
    \/ \E p \in OneStart : CheckConnection(p)
    \/ \E c \in Chans : WsOpen(c)
    \/ \E c \in Chans, t \in InfoTypes : OnInformational(c, t) /\ lastOp' = "other"
    \/ \E c \in Chans : OnSpeechStarted(c)
    \/ \E c \in Chans, t \in OneText : OnTranscript(c, t)
    \/ \E c \in Chans : OnThinking(c)
    \/ \E c \in Chans, t \in OneText : OnResponse(c, t)
    \/ \E c \in Chans : OnPlaybackStarted(c)
    \/ \E c \in Chans, f \in OneFrame : OnAudioChunk(c, f)
    \/ \E c \in Chans : OnPlaybackFinished(c)
    \/ \E c \in Chans : OnError(c)
    \/ \E c \in Chans, a \in Analyses : OnTranscriptAnalysis(c, a)

SpecEvents == Init /\ [][NextEvents]_vars

\* The events of a turn on one session: speech, text, thinking, playback and
\* audio, and among them the informational events, which here leave their
\* mark in lastOp.
NextInfo ==
    \/ \E p \in OneStart : MicClick(p)
    \/ \E p \in OneStart : ModalConfirm(p)
    \/ \E p \in OneStart : CheckConnection(p)
    \/ \E c \in Chans : WsOpen(c)
    \/ \E c \in Chans, t \in InfoTypes : OnInformational(c, t) /\ lastOp' = "info"
    \/ \E c \in Chans : OnSpeechStarted(c)
    \/ \E c \in Chans : OnThinking(c)
    \/ \E c \in Chans, t \in OneText : OnTranscript(c, t)
    \/ \E c \in Chans, t \in OneText : OnResponse(c, t)
    \/ \E c \in Chans : OnPlaybackStarted(c)
    \/ \E c \in Chans, f \in OneFrame : OnAudioChunk(c, f)
    \/ \E c \in Chans : OnPlaybackFinished(c)

SpecInfo == Init /\ [][NextInfo]_vars

\* Channel open: the session operations and socket events, one start
\* invocation at a time.  The timers and promise continuations of a pending
\* handleRecordingStart always run; sockets and the user owe nothing.
NextOpen ==
    \/ \E p \in OneStart : MicClick(p)
    \/ \E p \in OneStart : ModalConfirm(p)
    \/ ReconnectClick
    \/ \E p \in OneStart : CheckConnection(p)
    \/ \E p \in OneStart : AfterStartDelay(p)
    \/ \E p \in OneStart : MicGranted(p)
    \/ \E p \in OneStart : MicDenied(p)
    \/ \E p \in OneStart, kind \in CaptureKinds : CaptureNodeReady(p, kind)
    \/ \E c \in Chans : WsOpen(c)
    \/ \E c \in Chans : WsFail(c)
    \/ \E c \in Chans : WsClose(c)
    \/ \E c \in Chans : OnError(c)

SpecOpen ==
    /\ Init /\ [][NextOpen]_vars
    /\ \A p \in OneStart : WF_vars(CheckConnection(p))
    /\ \A p \in OneStart : WF_vars(AfterStartDelay(p))

\* The handlers called directly, without the mic button between the caller
\* and handleRecordingStart / handleRecordingStop.
StartCall(p) == handleRecordingStart(p) /\ UNCHANGED showUserInfoModal
StopCall == handleRecordingStop /\ UNCHANGED showUserInfoModal

NextHandlers ==
    \/ \E p \in OneStart : StartCall(p)
    \/ StopCall
    \/ handleReconnect
    \/ \E p \in OneStart : CheckConnection(p)
    \/ \E p \in OneStart : AfterStartDelay(p)
    \/ \E p \in OneStart : MicGranted(p)
    \/ \E p \in OneStart : MicDenied(p)
    \/ \E p \in OneStart, kind \in CaptureKinds : CaptureNodeReady(p, kind)
    \/ \E c \in Chans : WsOpen(c)
    \/ \E c \in Chans : WsFail(c)
    \/ \E c \in Chans : WsClose(c)

SpecHandlers == Init /\ [][NextHandlers]_vars

\* Profile and start_session: the user fills in and edits the profile, starts
\* and stops, and the channel opens.  The values typed into the name field
\* stand for an empty field, white space only, a plain value, a value in
\* white space and a value with white space inside; the other fields take
\* the first three of these.
FieldValues(k) ==
    {<<>>, <<" ">>, <<"a">>} \cup
    (IF k = "name" THEN {<<" ", "a", " ">>, <<"a", " ", "b">>} ELSE {})

NextContext ==
    \/ \E p \in OneStart : MicClick(p)
    \/ \E p \in OneStart : ModalConfirm(p)
    \/ ModalDismiss
    \/ EditProfileClick
    \/ \E k \in ProfileKeys : \E v \in FieldValues(k) : SetProfileField(k, v)
    \/ \E p \in OneStart : CheckConnection(p)
    \/ \E c \in Chans : WsOpen(c)

SpecContext == Init /\ [][NextContext]_vars

\* Sessions one after the other: the user starts, stops and starts again,
\* channels open and close, and every channel delivers text of its own (the
\* first channel "a", the others "b") and playback_finished.
ChannelText(c) == IF c = 1 THEN <<"a">> ELSE <<"b">>

NextSessions ==
    \/ \E p \in Procs : MicClick(p)
    \/ \E p \in Procs : ModalConfirm(p)
    \/ \E p \in Procs : CheckConnection(p)
    \/ \E c \in Chans : WsOpen(c)
    \/ \E c \in Chans : WsClose(c)
    \/ \E c \in Chans : OnTranscript(c, ChannelText(c))
    \/ \E c \in Chans : OnResponse(c, ChannelText(c))
    \/ \E c \in Chans : OnPlaybackFinished(c)

SpecSessions == Init /\ [][NextSessions]_vars

\* Fallback encoder: a recording started on the ScriptProcessor path, fed
\* samples from a grid that reaches beyond [-1, 1].
Samples == (0 - MaxSample)..MaxSample

NextPcm ==
    \/ \E p \in OneStart : MicClick(p)
    \/ \E p \in OneStart : ModalConfirm(p)
    \/ \E p \in OneStart : CheckConnection(p)
    \/ \E p \in OneStart : AfterStartDelay(p)
    \/ \E p \in OneStart : MicGranted(p)
    \/ \E p \in OneStart : CaptureNodeReady(p, "fallback")
    \/ \E c \in Chans : WsOpen(c)
    \/ \E p \in OneStart, n \in Samples : EncodeSample(p, n)

SpecPcm == Init /\ [][NextPcm]_vars

\* Stop and analysis: the handlers called directly on a channel that may be
\* connecting, open, failed or closed, with the events that set the
\* turn-taking state and the analysis that answers end_session.
NextAnalysis ==
    \/ \E p \in OneStart : StartCall(p)
    \/ StopCall
    \/ \E p \in OneStart : CheckConnection(p)
    \/ \E c \in Chans : WsOpen(c)
    \/ \E c \in Chans : WsFail(c)
    \/ \E c \in Chans : WsClose(c)
    \/ \E c \in Chans : OnSpeechStarted(c)
    \/ \E c \in Chans, t \in OneText : OnTranscript(c, t)
    \/ \E c \in Chans, a \in Analyses : OnTranscriptAnalysis(c, a)

SpecAnalysis == Init /\ [][NextAnalysis]_vars

\* ------------------------------------------------------------------ claims
\* the step appends an audio_chunk to some socket's send log
SendsAudio ==
    \E c \in Chans : /\ Len(ws'[c].sent) > Len(ws[c].sent)
                     /\ ws'[c].sent[Len(ws'[c].sent)] = "audio_chunk"

\* C1: a capture batch produced while the agent-speaking flag is set sends no
\* audio_chunk, whichever capture node (worklet or fallback) produced it.
C1_Muting ==
    [][(\E p \in Procs : CaptureBatch(p)) /\ isAssistantSpeakingRef => ~SendsAudio]_vars

\* C2: any two consecutively scheduled frames do not overlap: the second
\* starts no earlier than the first's start plus the first's duration.
C2_NoOverlap ==
    \A i \in 1..(Len(scheduled) - 1) :
        scheduled[i + 1].start >= scheduled[i].start + scheduled[i].dur

\* F1 + " " + F2 + ... + " " + Fn
RECURSIVE JoinAll(_)
JoinAll(fs) ==
    IF fs = <<>> THEN <<>>
    ELSE IF Len(fs) = 1 THEN fs[1]
    ELSE JoinAll(SubSeq(fs, 1, Len(fs) - 1)) \o <<SPACE>> \o fs[Len(fs)]

\* the fragments from the first non-empty one on
RECURSIVE FromFirstNonEmpty(_)
FromFirstNonEmpty(fs) ==
    IF fs = <<>> \/ Truthy(Head(fs)) THEN fs ELSE FromFirstNonEmpty(Tail(fs))

\* C3 as claimed: each accumulator is the space-join of all the fragments of
\* its kind handled since the last commit, the first one verbatim.
C3_JoinOfAll ==
    /\ accumulatedTranscriptRef = JoinAll(fragsT)
    /\ accumulatedResponseRef = JoinAll(fragsR)

\* C3: each accumulator is the space-join, in arrival order, of the fragments
\* of its kind handled since the last commit, counted from the first
\* non-empty fragment on; with no fragment since the commit it is empty.
C3_Accumulation ==
    /\ accumulatedTranscriptRef = JoinAll(FromFirstNonEmpty(fragsT))
    /\ accumulatedResponseRef = JoinAll(FromFirstNonEmpty(fragsR))

C3_Witness ==
    /\ fragsT = << <<"a">>, <<"b">> >>
    /\ accumulatedTranscriptRef = <<"a", SPACE, "b">>

\* what finalizeResponse must have done when it ran in this step
CommitPost ==
    LET t == accumulatedTranscriptRef
        r == accumulatedResponseRef
        n == Len(chatHistory)
    IN /\ IF Truthy(t) \/ Truthy(r)
          THEN /\ Len(chatHistory') = n + 1
               /\ SubSeq(chatHistory', 1, n) = chatHistory
               /\ chatHistory'[n + 1].userMessage = t
               /\ chatHistory'[n + 1].assistantMessage = r
               /\ response' = <<[transcription |-> t, text |-> r]>>
          ELSE chatHistory' = chatHistory
       /\ accumulatedTranscriptRef' = <<>>
       /\ accumulatedResponseRef' = <<>>
       /\ currentTranscriptRef' = <<>>
       /\ currentResponseRef' = <<>>

\* C4: a commit with both accumulators empty appends nothing; otherwise it
\* appends exactly one ChatTurn holding the accumulated transcript and
\* response and exposes it as the latest response; either way both
\* accumulators and both per-utterance cursors end empty.
C4_Commit ==
    [][(\E c \in Chans : OnPlaybackFinished(c)) => CommitPost]_vars

C4_Witness ==
    /\ Len(chatHistory) = 1
    /\ chatHistory[1].userMessage = <<"a", SPACE, "b">>
    /\ response = <<[transcription |-> <<"a", SPACE, "b">>, text |-> <<>>]>>
    /\ accumulatedTranscriptRef = <<>>
    /\ currentTranscriptRef = <<>>

\* C5: an error event sets status error, clears the processing and analyzing
\* flags and leaves history alone, and no later step commits a ChatTurn from
\* the fragments of the turn the error interrupted.
C5_ErrorMidTurn ==
    [][/\ (\E c \in Chans : OnError(c)) =>
             /\ connectionStatus' = "error"
             /\ ~isProcessing' /\ ~isAnalyzing'
             /\ chatHistory' = chatHistory
       /\ interrupted => chatHistory' = chatHistory]_vars

\* C6: a start invocation waiting for the channel always leaves the wait.
C6_BoundedOpen ==
    \A p \in OneStart : (pc[p] = "wait") ~> (pc[p] # "wait")

\* positions of start_session in a send log
StartsIn(log) == {i \in DOMAIN log : log[i] = "start_session"}

\* C7: every socket is sent start_session at most once, only when OPEN, and
\* before any audio_chunk on it.
C7_StartOnce ==
    \A c \in Chans :
        /\ Cardinality(StartsIn(ws[c].sent)) <= 1
        /\ \A i \in DOMAIN ws[c].sent :
              ws[c].sent[i] = "audio_chunk" => \E j \in StartsIn(ws[c].sent) : j < i

\* C8: handleRecordingStop called right after handleRecordingStop changes
\* nothing: no further end_session, no state touched.
C8_StopIdempotent ==
    [][StopCall /\ lastOp = "stop" => UNCHANGED vars]_vars

NoCaptureHeld ==
    \A p \in Procs : stream[p] = "none" /\ ctx[p] = "none" /\ node[p] = "none"

\* C9: from the end of handleRecordingStop to the next start action no
\* capture stream, context or node is held and no audio_chunk is sent.
C9_Released ==
    [][/\ stopped' => NoCaptureHeld'
       /\ stopped /\ stopped' => ~SendsAudio]_vars

\* C10: the processing flag and the agent-speaking flag are never both set.
C10_OneState == ~(isProcessing /\ isAssistantSpeaking)

\* C11: once a new turn has begun (speech_started) while the accumulators
\* still hold fragments of a turn that was not committed, nothing more is
\* accumulated into them: from there they only stay as they are or are
\* cleared by the commit.
C11_OneTurn ==
    [][staleTurn =>
          /\ accumulatedTranscriptRef' \in {accumulatedTranscriptRef, <<>>}
          /\ accumulatedResponseRef' \in {accumulatedResponseRef, <<>>}]_vars

\* C12: whenever a capture node is live, the fallback handler's decision to
\* send or drop a batch is the worklet handler's decision.
C12_FallbackEquivalent ==
    (\E p \in Procs : CaptureLive(p)) => (WorkletSends <=> FallbackSends)

\* the channel the ref names is closed and dereferenced, the capture
\* resources the refs name are released
TornDown ==
    /\ websocketRef' = NULL
    /\ websocketRef # NULL => ws'[websocketRef].readyState \in {"CLOSING", "CLOSED"}
    /\ audioContextRef' = NULL /\ audioStreamRef' = NULL /\ workletNodeRef' = NULL
    /\ audioContextRef # NULL => ctx'[audioContextRef] = "none"
    /\ audioStreamRef # NULL => stream'[audioStreamRef] = "none"
    /\ workletNodeRef # NULL => node'[workletNodeRef] = "none"
    /\ audioQueueRef' = <<>>

\* C13: handleReconnect closes and dereferences the channel, releases the
\* capture resources, sets a fresh session identity and status ready, and
\* clears the playback queue, both accumulators and cursors, the live
\* transcript and response, and the processing, agent-speaking, analyzing
\* and recording flags.
C13_ReconnectClears ==
    [][ReconnectClick =>
          /\ TornDown
          /\ sessionIdRef' # sessionIdRef
          /\ connectionStatus' = "ready"
          /\ accumulatedTranscriptRef' = <<>> /\ accumulatedResponseRef' = <<>>
          /\ currentTranscriptRef' = <<>> /\ currentResponseRef' = <<>>
          /\ transcript' = <<>> /\ streamingResponse' = <<>>
          /\ ~isProcessing' /\ ~isAssistantSpeaking' /\ ~isAssistantSpeakingRef'
          /\ ~isAnalyzing' /\ ~isRecording']_vars

\* C14: an open sets status connected; a transport error sets status error;
\* a closure leaves status error when it already is error, drives it to
\* error when it strikes an open channel while recording, and sets ready
\* otherwise.
C14_ChannelStatus ==
    [][\A c \in Chans :
          /\ WsOpen(c) => connectionStatus' = "connected"
          /\ WsFail(c) => connectionStatus' = "error"
          /\ WsClose(c) =>
                connectionStatus' =
                    IF connectionStatus = "error" \/ (ws[c].readyState = "OPEN" /\ isRecording)
                    THEN "error" ELSE "ready"]_vars

\* C15: status error is left only by handleReconnect; a handleRecordingStart
\* called while status is error opens no channel and sends nothing; a channel
\* is created only by a user start action.
C15_ErrorAbsorbing ==
    [][/\ connectionStatus = "error" =>
             connectionStatus' = "error" \/ lastOp' = "reconnect"
       /\ connectionStatus = "error" /\ lastOp' \in {"start", "start_refused"} =>
             ws' = ws /\ wsCount' = wsCount
       /\ wsCount' # wsCount => lastOp' = "start"]_vars

\* the frames of the arrival log that decode, in arrival order
Decoded(log) == SelectSeq(log, LAMBDA a : DecodeOk(a.frame))

\* C16: the frames that decode are scheduled once each, in exactly the order
\* their audio_chunk events arrived.
C16_Fifo ==
    LET d == Decoded(arrived)
    IN /\ Len(scheduled) = Len(d)
       /\ \A i \in DOMAIN d : scheduled[i].dur = Duration(d[i].frame)

C16_Witness ==
    /\ Len(arrived) = 2
    /\ Len(scheduled) = 2
    /\ scheduled[1].dur = 2 /\ scheduled[2].dur = 1

\* C17: handleRecordingStop leaves the playback queue, the play-time cursor
\* and the drain guard as they are, and a frame that arrives after the stop
\* is drained from the queue and, when it decodes, scheduled behind the
\* frames scheduled before it.
C17_StopKeepsPlayback ==
    [][/\ lastOp' = "stop" => UNCHANGED <<audioQueueRef, nextPlayTimeRef, isPlayingRef>>
       /\ \A c \in Chans, f \in DrainFrames :
             stopped /\ OnAudioChunk(c, f) =>
                /\ audioQueueRef' = <<>>
                /\ scheduled' =
                     IF DecodeOk(f)
                     THEN Append(scheduled, [start |-> Max(clock, nextPlayTimeRef),
                                             dur |-> Duration(f)])
                     ELSE scheduled]_vars

C17_Witness ==
    /\ stopped
    /\ Len(scheduled) = 2
    /\ ~arrived[1].afterStop /\ arrived[2].afterStop
    /\ scheduled[2].start = scheduled[1].start + scheduled[1].dur

\* C18: cleanup (run by handleReconnect) sends end_session on the channel the
\* ref names exactly when that channel is OPEN, the message going out ahead
\* of the close; it closes and dereferences the channel, releases the
\* capture node, context and stream, and leaves the playback queue empty;
\* with no channel and no capture resources it touches no socket.
C18_Teardown ==
    [][handleReconnect =>
          /\ TornDown
          /\ \A c \in Chans :
                ws'[c].sent =
                    IF c = websocketRef /\ ws[c].readyState = "OPEN"
                    THEN Append(ws[c].sent, "end_session") ELSE ws[c].sent
          /\ websocketRef = NULL => ws' = ws]_vars

C18_Witness ==
    /\ lastOp = "reconnect"
    /\ websocketRef = NULL
    /\ \E c \in Chans : /\ ws[c].readyState = "CLOSING"
                        /\ ws[c].sent = <<"start_session", "end_session">>

C20_CommitOnlyOnFinish ==
    [][(\/ chatHistory' # chatHistory
        \/ Truthy(accumulatedTranscriptRef) /\ ~Truthy(accumulatedTranscriptRef')
        \/ Truthy(accumulatedResponseRef) /\ ~Truthy(accumulatedResponseRef'))
       => \E c \in Chans : OnPlaybackFinished(c)]_vars

C20_Witness ==
    /\ chatHistory = <<>>
    /\ accumulatedTranscriptRef = <<"a">>
    /\ accumulatedResponseRef = <<"a">>
    /\ Len(arrived) = 1
    /\ transcriptAnalysis = "analysis"
    /\ lastOp = "reconnect"

\* C21: a session_started, agent_ready, settings_applied or unrecognized event
\* leaves the turn-taking flags, the four accumulators, the playback queue
\* and cursor, the history and the connection status as they were, and the
\* channel it came on still delivers events afterwards.
C21_InformationalInert ==
    [][\A c \in Chans, t \in InfoTypes :
          OnInformational(c, t) =>
              /\ UNCHANGED <<isProcessing, isAssistantSpeaking, isAssistantSpeakingRef,
                             turnRefs, audioQueueRef, isPlayingRef, nextPlayTimeRef,
                             chatHistory, connectionStatus>>
              /\ Delivers(c)'
              /\ websocketRef' = websocketRef]_vars

\* an informational event arrived in the middle of a turn, with text
\* accumulated and the processing flag set
C21_Witness ==
    /\ lastOp = "info"
    /\ isProcessing
    /\ accumulatedTranscriptRef # <<>>
    /\ nextPlayTimeRef > 0
    /\ connectionStatus = "connected"

\* C22: handleRecordingStop sends end_session if and only if the channel is
\* OPEN and sets the analyzing flag exactly when it sent it; a
\* transcript_analysis event stores its result and clears the analyzing flag
\* without touching the turn-taking state.
C22_StopAndAnalysis ==
    [][/\ handleRecordingStop =>
              /\ ws' = IF RefReadyState = "OPEN" THEN Send("end_session") ELSE ws
              /\ isAnalyzing' = (isAnalyzing \/ RefReadyState = "OPEN")
       /\ \A c \in Chans, a \in Analyses :
              OnTranscriptAnalysis(c, a) =>
                  /\ transcriptAnalysis' = a
                  /\ ~isAnalyzing'
                  /\ UNCHANGED <<isProcessing, isAssistantSpeaking,
                                 isAssistantSpeakingRef, turnRefs, playRefs,
                                 chatHistory>>]_vars

\* a stop on an OPEN channel sent end_session and the analysis then arrived
\* in the middle of a turn
C22_Witness ==
    /\ stopped
    /\ ~isAnalyzing
    /\ transcriptAnalysis \in Analyses
    /\ isProcessing
    /\ accumulatedTranscriptRef # <<>>
    /\ \E c \in Chans : ws[c].sent = <<"start_session", "end_session">>

\* C23: when the microphone request of a start is denied or fails, that start
\* ends with the recording flag false, holds no capture stream, context or
\* node, and can send no audio_chunk: nothing is sent by the abort and no
\* capture of that start is live afterwards.
C23_MicDeniedAborts ==
    [][\A p \in Procs :
          MicDenied(p) =>
              /\ ~isRecording'
              /\ stream'[p] = "none" /\ ctx'[p] = "none" /\ node'[p] = "none"
              /\ audioStreamRef' # p /\ audioContextRef' # p /\ workletNodeRef' # p
              /\ ~CaptureLive(p)'
              /\ pc'[p] = "idle"
              /\ ws' = ws]_vars

\* a start on an OPEN channel was refused the microphone
C23_Witness ==
    /\ connectionStatus = "error"
    /\ ~isRecording
    /\ ~stopped
    /\ RefReadyState = "OPEN"
    /\ \A p \in Procs : pc[p] = "idle" /\ ~CaptureLive(p)

\* C24: a start requested while the channel is OPEN creates no channel, keeps
\* the session identity and sends no start_session (it goes on without the
\* wait that sends it); every step that creates a channel first generates an
\* identity that no earlier channel had, and the new channel's endpoint
\* carries it.
C24_OpenIdempotentFreshIds ==
    [][/\ \A p \in Procs :
              handleRecordingStart(p) /\ RefReadyState = "OPEN" =>
                  /\ wsCount' = wsCount
                  /\ websocketRef' = websocketRef
                  /\ sessionIdRef' = sessionIdRef
                  /\ ws' = ws
                  /\ pc'[p] # "wait"
       /\ wsCount' # wsCount =>
              /\ wsCount' = wsCount + 1
              /\ sessionIdRef' # sessionIdRef
              /\ ws'[wsCount'].sessionId = sessionIdRef'
              /\ \A c \in 1..wsCount : ws[c].sessionId # sessionIdRef']_vars

\* a second channel was created after the first, and later a start found the
\* second one OPEN and went straight on to the microphone
C24_Witness ==
    /\ wsCount = 2
    /\ ws[1].sessionId # ws[2].sessionId
    /\ lastOp = "start"
    /\ RefReadyState = "OPEN"
    /\ websocketRef = 2
    /\ ws[2].sent = <<"start_session">>
    /\ \E p \in Procs : pc[p] = "mic"

\* v is r without its leading and trailing white space
IsTrimOf(v, r) ==
    /\ v # <<>> => v[1] # SPACE /\ v[Len(v)] # SPACE
    /\ \E i \in 0..Len(r) :
          /\ i + Len(v) <= Len(r)
          /\ \A j \in 1..Len(r) :
                IF j > i /\ j <= i + Len(v) THEN r[j] = v[j - i] ELSE r[j] = SPACE

\* C25: the start_session message a start sends carries a context holding
\* exactly the profile fields (of the profile that start was requested with)
\* whose trimmed value is non-empty, each with its trimmed value, and has no
\* context key at all when every field is empty or white space.
C25_ContextOmission ==
    [][\A p \in Procs :
          CheckConnection(p) /\ ws' # ws =>
              LET msg == lastStartSession'
                  set == {k \in ProfileKeys :
                             \E j \in 1..Len(closure[p][k]) : closure[p][k][j] # SPACE}
              IN  /\ msg.type = "start_session"
                  /\ ("context" \in DOMAIN msg) <=> (set # {})
                  /\ set # {} =>
                        /\ DOMAIN msg.context = set
                        /\ \A k \in set : IsTrimOf(msg.context[k], closure[p][k])]_vars

\* a start_session was sent for a profile with a padded name, a blank role,
\* an empty industry and some years: the context has the name, trimmed, and
\* the years only
C25_Witness ==
    /\ lastStartSession.type = "start_session"
    /\ "context" \in DOMAIN lastStartSession
    /\ DOMAIN lastStartSession.context = {"name", "years_of_experience"}
    /\ lastStartSession.context.name = <<"a">>
    /\ \E p \in Procs :
          /\ closure[p].name = <<" ", "a", " ">>
          /\ closure[p].role = <<" ">>
          /\ closure[p].industry = <<>>
    /\ \E c \in Chans : ws[c].sent = <<"start_session">>

\* a start_session was sent with every field empty or blank: no context key
C25_WitnessOmitted ==
    /\ lastStartSession.type = "start_session"
    /\ DOMAIN lastStartSession = {"type"}
    /\ \E p \in Procs : closure[p].name = <<" ">>

\* C26: a frame that decodes is scheduled at max(clock, cursor) and the cursor
\* then is that start plus the frame's duration, so a frame that arrives
\* before the previous one has ended starts exactly at the previous end; the
\* cursor decreases only in a handleRecordingStart, which zeroes it and
\* empties the queue, and no step other than an audio_chunk or such a start
\* changes it.
C26_CursorDiscipline ==
    [][/\ \A c \in Chans, f \in DrainFrames :
              OnAudioChunk(c, f) /\ f.valid /\ f.bytes \in {2, 4} =>
                  LET st == IF clock >= nextPlayTimeRef THEN clock ELSE nextPlayTimeRef
                  IN  /\ scheduled' = Append(scheduled, [start |-> st, dur |-> f.bytes \div 2])
                      /\ nextPlayTimeRef' = st + f.bytes \div 2
                      /\ clock < nextPlayTimeRef => st = nextPlayTimeRef
       /\ nextPlayTimeRef' < nextPlayTimeRef =>
              /\ \E p \in Procs : handleRecordingStart(p)
              /\ nextPlayTimeRef' = 0
              /\ audioQueueRef' = <<>>
       /\ nextPlayTimeRef' # nextPlayTimeRef =>
              \/ \E p \in Procs : handleRecordingStart(p)
              \/ \E c \in Chans, f \in DrainFrames : OnAudioChunk(c, f)]_vars

\* a start zeroed a cursor that frames had advanced
C26_WitnessZeroed ==
    /\ lastOp = "start"
    /\ scheduled # <<>>
    /\ nextPlayTimeRef = 0

\* a second frame arrived before the first had ended and was scheduled at the
\* first one's end, and the cursor stands behind both after a reconnect
C26_Witness ==
    /\ Len(scheduled) = 2
    /\ scheduled[1].start > 0
    /\ scheduled[2].start = scheduled[1].start + scheduled[1].dur
    /\ clock < scheduled[2].start
    /\ nextPlayTimeRef = scheduled[2].start + scheduled[2].dur
    /\ lastOp = "reconnect"

\* the frame is base64 of a whole, non-zero number of 16-bit samples
Playable(f) == f.valid /\ f.bytes > 0 /\ f.bytes % 2 = 0

\* C27: a frame that fails to decode is removed from the queue, schedules
\* nothing and leaves the cursor where it was, the drain guard is released
\* with the queue empty, and the frames that come after it are still drained
\* and scheduled in their order.
C27_DecodeFailureLocal ==
    [][\A c \in Chans, f \in DrainFrames :
          OnAudioChunk(c, f) =>
              /\ audioQueueRef' = <<>>
              /\ ~isPlayingRef'
              /\ IF Playable(f)
                 THEN /\ Len(scheduled') = Len(scheduled) + 1
                      /\ SubSeq(scheduled', 1, Len(scheduled)) = scheduled
                      /\ scheduled'[Len(scheduled')].dur = f.bytes \div 2
                 ELSE UNCHANGED <<scheduled, nextPlayTimeRef>>]_vars

\* a frame that does not decode arrived and then one that does: the first
\* left no trace in the schedule or the cursor, the second is scheduled
C27_Witness ==
    /\ Len(arrived) = 2
    /\ ~Playable(arrived[1].frame) /\ Playable(arrived[2].frame)
    /\ Len(scheduled) = 1
    /\ scheduled[1].dur = arrived[2].frame.bytes \div 2
    /\ nextPlayTimeRef = scheduled[1].start + scheduled[1].dur
    /\ audioQueueRef = <<>> /\ ~isPlayingRef

\* C29: at most one drain is active at a time: a drain begins with the guard
\* clear and has released it when the audio_chunk handler that called it
\* returns, so no drain is in progress when the next call is made; a call
\* that finds the guard set removes no frame and leaves the cursor and the
\* schedule alone; and the schedule and the cursor are advanced only by the
\* drain of an audio_chunk event.
C29_SingleFlight ==
    [][/\ \A c \in Chans, f \in DrainFrames :
              OnAudioChunk(c, f) =>
                  IF isPlayingRef
                  THEN /\ audioQueueRef' = Append(audioQueueRef, f)
                       /\ UNCHANGED <<nextPlayTimeRef, scheduled, isPlayingRef>>
                  ELSE ~isPlayingRef'
       /\ (scheduled' # scheduled \/ nextPlayTimeRef' > nextPlayTimeRef) =>
              /\ ~isPlayingRef /\ ~isPlayingRef'
              /\ \E c \in Chans, f \in DrainFrames : OnAudioChunk(c, f)]_vars

\* two drains ran one after the other, each for its own frame, and none is
\* in progress
C29_Witness ==
    /\ Len(arrived) = 2
    /\ Len(scheduled) = 2
    /\ scheduled[1].dur = 1 /\ scheduled[2].dur = 2
    /\ ~isPlayingRef

\* C30: when the handling of an audio_chunk event has finished, the frame it
\* enqueued has been scheduled or skipped: between events the playback queue
\* is empty, the drain guard is false, and every frame that arrived is
\* either in the schedule or was one that does not decode.
C30_NoStrandedFrames ==
    /\ audioQueueRef = <<>>
    /\ ~isPlayingRef
    /\ Len(scheduled) + Len(SelectSeq(arrived, LAMBDA a : ~Playable(a.frame)))
           = Len(arrived)

\* a frame was scheduled and the next one skipped; nothing is left queued
C30_Witness ==
    /\ Len(arrived) = 2
    /\ Playable(arrived[1].frame) /\ ~Playable(arrived[2].frame)
    /\ Len(scheduled) = 1
    /\ audioQueueRef = <<>>

\* C28: speech_started and thinking set the processing flag; playback_started
\* sets the agent-speaking flag and clears processing; playback_finished
\* clears both and commits (the accumulators are emptied and, when they held
\* text, the history grows by one); transcript, response and audio_chunk
\* leave both flags as they are.
C28_TransitionTable ==
    [][\A c \in Chans :
          /\ OnSpeechStarted(c) \/ OnThinking(c) =>
                isProcessing' /\ UNCHANGED isAssistantSpeaking
          /\ OnPlaybackStarted(c) =>
                isAssistantSpeaking' /\ isAssistantSpeakingRef' /\ ~isProcessing'
          /\ OnPlaybackFinished(c) =>
                /\ ~isAssistantSpeaking' /\ ~isAssistantSpeakingRef' /\ ~isProcessing'
                /\ accumulatedTranscriptRef' = <<>> /\ accumulatedResponseRef' = <<>>
                /\ currentTranscriptRef' = <<>> /\ currentResponseRef' = <<>>
                /\ Len(chatHistory') =
                      IF accumulatedTranscriptRef # <<>> \/ accumulatedResponseRef # <<>>
                         \/ currentTranscriptRef # <<>> \/ currentResponseRef # <<>>
                      THEN Len(chatHistory) + 1 ELSE Len(chatHistory)
          /\ \/ \E t \in OneText : OnTranscript(c, t) \/ OnResponse(c, t)
             \/ \E f \in OneFrame : OnAudioChunk(c, f)
             => UNCHANGED <<isProcessing, isAssistantSpeaking>>]_vars

\* the agent is speaking after speech, transcript, thinking, response and
\* audio: the speaking flag is set and processing is cleared, with the
\* turn's text still accumulated
C28_Witness ==
    /\ isAssistantSpeaking /\ isAssistantSpeakingRef
    /\ ~isProcessing
    /\ accumulatedTranscriptRef # <<>>
    /\ accumulatedResponseRef # <<>>
    /\ scheduled # <<>>
    /\ chatHistory = <<>>

\* the audio_chunk at position i of a send log lies inside a session: the
\* nearest session message before it is a start_session
InSession(log, i) ==
    \E j \in 1..(i - 1) :
        /\ log[j] = "start_session"
        /\ \A k \in (j + 1)..(i - 1) : log[k] # "end_session"

\* C31: on every channel each audio_chunk is sent after a start_session of
\* that channel and before the end_session that follows it; no audio_chunk
\* goes out on a channel before its start_session or after its end_session
\* without a new start_session.
C31_SessionBracketing ==
    \A c \in Chans :
        \A i \in 1..Len(ws[c].sent) :
            ws[c].sent[i] = "audio_chunk" => InSession(ws[c].sent, i)

\* no event can arrive any more and no start is under way: every channel is
\* gone and every handleRecordingStart has returned
Quiescent ==
    /\ \A c \in Chans : ws[c].readyState \in {"NONE", "CLOSED"}
    /\ \A p \in Procs : pc[p] = "idle"

\* C32: the session never gets stuck: once the channel has closed or failed
\* and nothing is pending that could still change a flag, the mic control is
\* enabled or the reconnect action is offered, also when the processing or
\* agent-speaking flag was set at the time of the close.
C32_NoStuckSession == Quiescent => ~MicDisabled \/ ReconnectOffered

\* the channels whose handlers can still run: connecting or open
LiveChannels == {c \in Chans : ws[c].readyState \in {"CONNECTING", "OPEN"}}

\* C33: at most one channel is connecting or open at any time, and an event
\* of a channel that the ref no longer names (superseded by a newer channel or
\* torn down) changes neither the connection status, the turn-taking flags,
\* the accumulators nor the playback queue.
C33_SingleLiveChannel ==
    [][/\ Cardinality(LiveChannels') <= 1
       /\ \A c \in Chans :
             c # websocketRef /\ (WsOpen(c) \/ WsClose(c) \/ WsFail(c)) =>
                 UNCHANGED <<connectionStatus, isProcessing, isAssistantSpeaking,
                             turnRefs, audioQueueRef>>]_vars

\* the first half of C33 alone
C33_OneLive == Cardinality(LiveChannels) <= 1

\* the second half of C33 alone
C33_SupersededSilent ==
    [][\A c \in Chans :
          c # websocketRef /\ (WsOpen(c) \/ WsClose(c) \/ WsFail(c)) =>
              UNCHANGED connectionStatus]_vars

\* C34: at most one capture stream and one processing node are live at any
\* time, and every live stream, context and node is the one its capture
\* handle names, so that the next stop or teardown releases it and none is
\* orphaned by a later start overwriting the handles.
C34_SingleCapture ==
    /\ Cardinality({p \in Procs : stream[p] # "none"}) <= 1
    /\ Cardinality({p \in Procs : node[p] # "none"}) <= 1
    /\ \A p \in Procs :
          /\ stream[p] # "none" => audioStreamRef = p
          /\ ctx[p] # "none" => audioContextRef = p
          /\ node[p] # "none" => workletNodeRef = p

\* every letter of msg is text that channel c delivers
OnlyFrom(c, msg) ==
    \A i \in DOMAIN msg : msg[i] = SPACE \/ <<msg[i]>> = ChannelText(c)

\* C35: a ChatTurn is committed from the fragments of one channel: the step
\* that appends it is the playback_finished of a channel on which all of its
\* user and assistant text was received, so nothing received on an earlier
\* channel that closed, failed or was torn down with text accumulated is
\* carried into a later session's turn.
C35_NoCrossSessionLeak ==
    [][chatHistory' # chatHistory =>
          LET turn == chatHistory'[Len(chatHistory')]
          IN \E c \in Chans :
                /\ OnPlaybackFinished(c)
                /\ OnlyFrom(c, turn.userMessage)
                /\ OnlyFrom(c, turn.assistantMessage)]_vars

\* C36: the analyzing flag set by stop does not stay set once the channel
\* that end_session went out on has closed, failed or been torn down: while
\* the flag is set, some channel that was sent end_session is not yet closed
\* and can still deliver the transcript_analysis that clears it.
C36_AnalyzingClears ==
    isAnalyzing =>
        \E c \in Chans :
            /\ \E i \in DOMAIN ws[c].sent : ws[c].sent[i] = "end_session"
            /\ ws[c].readyState # "CLOSED"

\* C37: the live transcript display equals the accumulated transcript and
\* the streaming-response display equals the accumulated response in every
\* state, also after a recording start or a reconnect has cleared the
\* displays.
C37_DisplayTracksAccumulator ==
    /\ transcript = accumulatedTranscriptRef
    /\ streamingResponse = accumulatedResponseRef


\* C38 as stated: every sample the fallback encoder reads is clamped to
\* [-1, 1] and the value it stores is round(s < 0 ? s * 32768 : s * 32767),
\* which lies within the signed 16-bit range [-32768, 32767].
C38_PcmConversion ==
    /\ int16Sample = RoundNearest(Scale(Clamp(inputSample)), GridDen)
    /\ int16Sample >= 0 - 32768
    /\ int16Sample <= 32767

\* C38 amended: every sample the fallback encoder reads is clamped to [-1, 1]
\* and the value it stores is the scaled product s * 32768 (s negative) or
\* s * 32767 (otherwise) with its fraction dropped, towards zero; the stored
\* value lies within [-32768, 32767].
C38_PcmTruncation ==
    LET prod == Scale(Clamp(inputSample))
        k    == int16Sample
    IN /\ IF prod >= 0
          THEN k * GridDen <= prod /\ prod < (k + 1) * GridDen
          ELSE (k - 1) * GridDen < prod /\ prod <= k * GridDen
       /\ k >= 0 - 32768
       /\ k <= 32767

\* a sample inside [-1, 1] whose scaled product 32767 / 32 = 1023.96875 is
\* not an integer: 1023 is stored where the nearest integer is 1024
C38_Witness ==
    /\ inputSample = 1
    /\ int16Sample = 1023
    /\ RoundNearest(Scale(Clamp(inputSample)), GridDen) = 1024

\* samples beyond [-1, 1] store the two ends of the range
C38_WitnessClamped ==
    \/ inputSample = MaxSample /\ int16Sample = 32767
    \/ inputSample = 0 - MaxSample /\ int16Sample = 0 - 32768

====
